---------------------------- MODULE Spec2Model ----------------------------
(***************************************************************************)
(* A state-machine model of six parts of noodles:                          *)
(*   - the async BCF indexed query stream  (noodles-bcf  reader/query.rs)  *)
(*   - the CRAM adaptive arithmetic model  (noodles-cram codecs/aac)       *)
(*   - the BGZF block reader               (noodles-bgzf reader.rs)        *)
(*   - the BGZF virtual position functions (noodles-bgzf reader.rs)        *)
(*   - the CRAM slice builder              (noodles-cram slice/builder.rs) *)
(*   - the VCF chromosome parser           (noodles-vcf record/chromosome) *)
(* Each part has its own variables, initial states, actions and            *)
(* specification; a specification leaves the other parts' variables at a   *)
(* fixed idle value.                                                       *)
(***************************************************************************)
EXTENDS Integers, Sequences, FiniteSets, TLC

VARIABLES
    \* ---- query stream (query.rs, struct Context) ----
    file,           \* the records of the BCF file, in file order (record i starts at virtual position i-1)
    chunks0,        \* the chunk list handed to query()
    chunks,         \* ctx.chunks: the chunks not yet taken from the iterator
    chromosome_id,  \* ctx.chromosome_id
    interval,       \* ctx.interval
    state,          \* ctx.state
    rvp,            \* ctx.reader.virtual_position()
    stream,         \* the try_unfold stream: "active", "failed" (an Err was yielded), "complete" (None was returned)
    yielded,        \* history: the items the stream has yielded
    seeks,          \* history: the positions handed to reader.seek
    reads,          \* history: the file indexes of the records next_record returned
    \* ---- adaptive model (aac/model.rs, struct Model) ----
    total_freq,     \* self.total_freq
    symbols,        \* self.symbols
    frequencies,    \* self.frequencies
    last,           \* history: what the last decode call did
    since,          \* history: decodes completed since new() or the last renormalization
    renorms,        \* history: renormalizations so far
    \* ---- BGZF reader (bgzf/reader.rs, struct Reader, and the caller's Block) ----
    inner,          \* self.inner: the bytes of the underlying stream and its cursor
    position,       \* self.position
    cdata,          \* self.cdata
    block,          \* the sink block the caller passes to read_block and seek
    layout,         \* history: the blocks the stream was made of, and where it was cut
    ret,            \* history: the last call: what it was given, where the stream stood, what it returned
    counts,         \* history: the calls and the seeks so far
    \* ---- virtual positions (bgzf/reader.rs, compressed_offset, uncompressed_offset) ----
    vp_a,           \* a virtual position
    vp_b,           \* another one
    parts,          \* the offsets computed from vp_a and vp_b
    \* ---- slice builder (slice/builder.rs, struct Builder) ----
    records,        \* self.records
    slice_reference_sequence_id,  \* self.slice_reference_sequence_id
    fill,           \* how the builder is driven: freely, or filled with one record first
    budget,         \* the add_record calls still to be made freely
    add_ret,        \* history: the last add_record call and what it returned
    slice,          \* what build returned, once it was called
    \* ---- chromosome parser (record/chromosome.rs, Chromosome::from_str) ----
    input,          \* s: the string to parse, as the sequence of its characters' code points
    parsed          \* what from_str returned, once it was called

qvars == <<file, chunks0, chunks, chromosome_id, interval, state, rvp, stream, yielded, seeks, reads>>

mvars == <<total_freq, symbols, frequencies, last, since, renorms>>

rvars == <<inner, position, cdata, block, layout, ret, counts>>

ovars == <<vp_a, vp_b, parts>>

bvars == <<records, slice_reference_sequence_id, fill, budget, add_ret, slice>>

cvars == <<input, parsed>>

vars == <<qvars, mvars, rvars, ovars, bvars, cvars>>

\* What the actions of one part leave alone.
NotQuery == <<mvars, rvars, ovars, bvars, cvars>>
NotModel == <<qvars, rvars, ovars, bvars, cvars>>
NotReader == <<qvars, mvars, ovars, bvars, cvars>>
NotOffsets == <<qvars, mvars, rvars, bvars, cvars>>
NotBuilder == <<qvars, mvars, rvars, ovars, cvars>>
NotChromosome == <<qvars, mvars, rvars, ovars, bvars>>

(***************************************************************************)
(*                       THE INDEXED QUERY STREAM                          *)
(***************************************************************************)

\* The longest chunk list handed to query().
MaxChunks == 2

\* lazy::Record as the query sees it: chromosome_id(), position(), end().
\* position and end are 0-based-capable VCF positions: 0 is representable
\* and is what Position::try_from rejects.
Rec(c, p, e) == [chromosome_id |-> c, position |-> p, end |-> e]

\* The records of the query-filter scenario, then two records whose
\* 1-based conversion fails (position 0, end 0).
R1 == Rec(0, 10, 20)
R2 == Rec(1, 30, 40)
R3 == Rec(0, 35, 45)
RZeroPosition == Rec(0, 0, 45)
RZeroEnd == Rec(0, 30, 0)

Files == { <<R1, R2, R3>>, <<R3, RZeroPosition, R3>>, <<R1, RZeroEnd, R3>> }

ChromosomeIds == {0, 1}

IntervalBounds == {1, 25, 50}

\* Interval: a closed 1-based interval.
Intervals == { iv \in [start : IntervalBounds, end : IntervalBounds] : iv.start <= iv.end }

\* Virtual positions: record i of a file starts at i-1; Len(file) is the end of the file.
VirtualPositions(f) == 0..Len(f)

\* Chunk: [start, end) in virtual positions; nothing requires start < end.
Chunks(f) == [start : VirtualPositions(f), end : VirtualPositions(f)]

RECURSIVE SeqsUpTo(_, _)
SeqsUpTo(S, n) ==
    IF n = 0 THEN { <<>> }
    ELSE LET shorter == SeqsUpTo(S, n - 1)
         IN  shorter \cup { Append(s, x) : s \in {t \in shorter : Len(t) = n - 1}, x \in S }

StateSeek == [tag |-> "Seek"]
StateRead(chunk_end) == [tag |-> "Read", chunk_end |-> chunk_end]
StateDone == [tag |-> "Done"]

Ok(v) == [tag |-> "Ok", val |-> v]
Err(kind) == [tag |-> "Err", kind |-> kind]

\* Position::try_from(usize): a position is 1-based, 0 is refused.
PositionTryFrom(n) == IF n = 0 THEN Err("InvalidData") ELSE Ok(n)

\* Interval::intersects of two closed intervals.
IntervalIntersects(a, b) == a.start <= b.end /\ b.start <= a.end

\* A filter that forgets the chromosome.
IntersectsAnyChromosome(record, chrom, region_interval) ==
    LET start == PositionTryFrom(record.position)
        end == PositionTryFrom(record.end)
    IN  IF start.tag = "Err" THEN start
        ELSE IF end.tag = "Err" THEN end
        ELSE Ok(IntervalIntersects([start |-> start.val, end |-> end.val], region_interval))

\* fn intersects(record, chromosome_id, region_interval) -> io::Result<bool>
Intersects(record, chrom, region_interval) ==
    LET id == record.chromosome_id
        start == PositionTryFrom(record.position)
        end == PositionTryFrom(record.end)
    IN  IF start.tag = "Err" THEN start
        ELSE IF end.tag = "Err" THEN end
        ELSE Ok(id = chrom
                /\ IntervalIntersects([start |-> start.val, end |-> end.val], region_interval))

\* A stream item: a record (with the file index it was read at) or an error.
ItemRecord(i, r) == [kind |-> "record", index |-> i, record |-> r]
ItemError(k) == [kind |-> "error", error |-> k]

\* query(): the context as constructed, before the first poll.
QueryInit ==
    /\ file \in Files
    /\ chunks0 \in SeqsUpTo(Chunks(file), MaxChunks)
    /\ chunks = chunks0
    /\ chromosome_id \in ChromosomeIds
    /\ interval \in Intervals
    /\ state = StateSeek
    /\ rvp = 0
    /\ stream = "active"
    /\ yielded = <<>>
    /\ seeks = <<>>
    /\ reads = <<>>

\* A stream that ends on an error without handing the error out.
FailSilently(kind) ==
    /\ yielded' = yielded
    /\ stream' = "failed"

\* The stream ends with an error item: try_unfold yields the Err and is finished.
Fail(kind) ==
    /\ yielded' = Append(yielded, ItemError(kind))
    /\ stream' = "failed"

\* An iterator that hands out the chunks from the back of the list.
ChunksNextBack(cs) == [chunk |-> cs[Len(cs)], rest |-> SubSeq(cs, 1, Len(cs) - 1)]

\* ctx.chunks.next() on a non-empty iterator: the first chunk, and the iterator after it.
ChunksNext(cs) == [chunk |-> Head(cs), rest |-> Tail(cs)]

\* State::Seek, chunks.next() is Some(chunk): seek to chunk.start, then Read(chunk.end).
\* The seek is I/O and may fail.
QuerySeekChunk ==
    /\ stream = "active"
    /\ state.tag = "Seek"
    /\ chunks # <<>>
    /\ LET chunk == ChunksNext(chunks).chunk
       IN  /\ chunks' = ChunksNext(chunks).rest
           /\ seeks' = Append(seeks, chunk.start)
           /\ \E io_ok \in BOOLEAN :
                IF io_ok
                THEN /\ rvp' = chunk.start
                     /\ state' = StateRead(chunk.end)
                     /\ UNCHANGED <<yielded, stream>>
                ELSE /\ Fail("Io")
                     /\ UNCHANGED <<rvp, state>>
    /\ UNCHANGED <<file, chunks0, chromosome_id, interval, reads>>
    /\ UNCHANGED NotQuery

\* A stream that goes on seeking when no chunk is left.
NoChunkLeftSeeksOn == StateSeek

\* None => State::Done
NoChunkLeft == StateDone

\* State::Seek, chunks.next() is None: Done.
QuerySeekNone ==
    /\ stream = "active"
    /\ state.tag = "Seek"
    /\ chunks = <<>>
    /\ state' = NoChunkLeft
    /\ UNCHANGED <<file, chunks0, chunks, chromosome_id, interval, rvp, stream, yielded, seeks, reads>>
    /\ UNCHANGED NotQuery

\* A chunk end that is taken as inclusive.
AfterRecordPast(vp, chunk_end) == IF vp > chunk_end THEN StateSeek ELSE StateRead(chunk_end)

\* The state after a record was read in Read(chunk_end).
AfterRecord(vp, chunk_end) == IF vp >= chunk_end THEN StateSeek ELSE StateRead(chunk_end)

\* State::Read(chunk_end): one next_record, the state update, the filter.
QueryRead ==
    /\ stream = "active"
    /\ state.tag = "Read"
    /\ \E io_ok \in BOOLEAN :
         IF ~io_ok
         THEN /\ Fail("Io")
              /\ UNCHANGED <<rvp, state, reads>>
         ELSE IF rvp >= Len(file)
         THEN \* read_lazy_record returned 0: no record
              /\ state' = StateSeek
              /\ UNCHANGED <<rvp, stream, yielded, reads>>
         ELSE LET record == file[rvp + 1]
                  hit == Intersects(record, chromosome_id, interval)
              IN  /\ rvp' = rvp + 1
                  /\ reads' = Append(reads, rvp + 1)
                  /\ state' = AfterRecord(rvp + 1, state.chunk_end)
                  /\ IF hit.tag = "Err" THEN Fail(hit.kind)
                     ELSE IF hit.val
                     THEN /\ yielded' = Append(yielded, ItemRecord(rvp + 1, record))
                          /\ UNCHANGED stream
                     ELSE UNCHANGED <<yielded, stream>>
    /\ UNCHANGED <<file, chunks0, chunks, chromosome_id, interval, seeks>>
    /\ UNCHANGED NotQuery

\* State::Done: the stream returns None and is complete.
QueryDone ==
    /\ stream = "active"
    /\ state.tag = "Done"
    /\ stream' = "complete"
    /\ UNCHANGED <<file, chunks0, chunks, chromosome_id, interval, state, rvp, yielded, seeks, reads>>
    /\ UNCHANGED NotQuery

QueryNext == QuerySeekChunk \/ QuerySeekNone \/ QueryRead \/ QueryDone


(***************************************************************************)
(*                  THE ADAPTIVE ARITHMETIC-CODER MODEL                    *)
(***************************************************************************)

\* The largest alphabet size handed to Model::new.
MaxSym == 3

\* After new() or a renormalization, this many decodes take any target the
\* range coder can return; later ones take the lowest target, until the
\* model is within TailDecodes decodes of renormalizing. The decodes stop
\* HeadDecodes after the first renormalization.
HeadDecodes == 2

TailDecodes == 2

\* (1 << 16) - 17
RenormLimit == 65519

\* The frequency a decode adds to the decoded symbol and to the total.
Step == 16

RECURSIVE SumSeq(_)
SumSeq(q) == IF q = <<>> THEN 0 ELSE Head(q) + SumSeq(Tail(q))

\* Model::new(num_sym): symbols[i] = i, frequencies[i] = i, total_freq = num_sym
\* (0-based i; the sequences here are 1-based).
ModelNew(num_sym) ==
    [ total_freq |-> num_sym,
      symbols |-> [i \in 1..num_sym |-> i - 1],
      frequencies |-> [i \in 1..num_sym |-> i - 1] ]

\* decode's linear scan from (acc, x), x 0-based: stops at the first x with
\* acc + frequencies[x] > freq; indexing past the table panics.
RECURSIVE Scan(_, _, _, _)
Scan(fr, freq, acc, x) ==
    IF x >= Len(fr) THEN [panic |-> TRUE, acc |-> acc, x |-> x]
    ELSE IF acc + fr[x + 1] <= freq THEN Scan(fr, freq, acc + fr[x + 1], x + 1)
    ELSE [panic |-> FALSE, acc |-> acc, x |-> x]

\* Model::renormalize: every frequency f becomes f - f/2, total_freq their sum.
Renormalize(m) ==
    LET halved == [i \in DOMAIN m.frequencies |-> m.frequencies[i] - (m.frequencies[i] \div 2)]
    IN  [m EXCEPT !.frequencies = halved, !.total_freq = SumSeq(halved)]

\* A threshold of 1 << 16, without the room for one more step.
NeedsRenormalizeLate(total) == total > 65536

\* self.total_freq > (1 << 16) - 17
NeedsRenormalize(total) == total > RenormLimit

\* A move of entry i all the way to the front of the table.
MoveToFront(q, i, j) == <<q[i]>> \o SubSeq(q, 1, i - 1) \o SubSeq(q, i + 1, Len(q))

\* Vec::swap(x, x - 1)
SwapAt(q, i, j) == [q EXCEPT ![i] = q[j], ![j] = q[i]]

\* decode after the scan stopped at x (0-based) and range_decode succeeded:
\* the update, the renormalization, the symbol, the swap.
DecodeAt(m, x) ==
    LET added == [m EXCEPT !.frequencies[x + 1] = @ + Step, !.total_freq = @ + Step]
        renormalize == NeedsRenormalize(added.total_freq)
        normal == IF renormalize THEN Renormalize(added) ELSE added
        sym == normal.symbols[x + 1]
        swap == x > 0 /\ normal.frequencies[x + 1] > normal.frequencies[x]
        swapped == IF swap
                   THEN [normal EXCEPT !.frequencies = SwapAt(@, x + 1, x),
                                       !.symbols = SwapAt(@, x + 1, x)]
                   ELSE normal
    IN  [model |-> swapped, sym |-> sym, renormalized |-> renormalize, swapped |-> swap]

Model == [total_freq |-> total_freq, symbols |-> symbols, frequencies |-> frequencies]

\* The start of each symbol's share of [0, total_freq): the lowest target that selects it.
Starts(fr) == { SumSeq(SubSeq(fr, 1, i - 1)) : i \in 1..Len(fr) }

\* range_get_freq(total_freq): a target in [0, total_freq). Every target of a
\* symbol's share scans to the same x, so the lowest of each share and the
\* highest target of all stand for the rest.
Targets == { f \in Starts(frequencies) \cup {total_freq - 1} : 0 <= f /\ f < total_freq }

\* The targets this decode may take (see HeadDecodes, TailDecodes).
Scheduled ==
    IF since < HeadDecodes \/ total_freq + Step * TailDecodes > RenormLimit
    THEN Targets
    ELSE { f \in Targets : \A g \in Targets : f <= g }

NoDecode == [call |-> "new"]

ModelInit ==
    /\ \E num_sym \in 0..MaxSym :
         /\ total_freq = ModelNew(num_sym).total_freq
         /\ symbols = ModelNew(num_sym).symbols
         /\ frequencies = ModelNew(num_sym).frequencies
    /\ last = NoDecode
    /\ since = 0
    /\ renorms = 0

Running == last.call \in {"new", "decoded", "failed"} /\ (renorms = 0 \/ since < HeadDecodes)

\* decode returns Ok(sym).
ModelDecode ==
    /\ Running
    /\ \E freq \in Scheduled :
         LET scan == Scan(frequencies, freq, 0, 0)
             d == DecodeAt(Model, scan.x)
         IN  /\ ~scan.panic
             /\ total_freq' = d.model.total_freq
             /\ symbols' = d.model.symbols
             /\ frequencies' = d.model.frequencies
             /\ last' = [call |-> "decoded", freq |-> freq, x |-> scan.x, sym |-> d.sym,
                         renormalized |-> d.renormalized, swapped |-> d.swapped,
                         before |-> Model]
             /\ since' = IF d.renormalized THEN 0 ELSE since + 1
             /\ renorms' = IF d.renormalized THEN renorms + 1 ELSE renorms
    /\ UNCHANGED NotModel

\* decode returns Err: range_decode failed on the reader, before any update.
ModelDecodeFails ==
    /\ Running
    /\ \E freq \in Scheduled :
         LET scan == Scan(frequencies, freq, 0, 0)
         IN  /\ ~scan.panic
             /\ last' = [call |-> "failed", freq |-> freq, x |-> scan.x]
    /\ UNCHANGED <<total_freq, symbols, frequencies, since, renorms>>
    /\ UNCHANGED NotModel

\* decode panics: the scan indexes past the end of the table.
ModelDecodePanics ==
    /\ Running
    /\ \E freq \in Scheduled :
         LET scan == Scan(frequencies, freq, 0, 0)
         IN  /\ scan.panic
             /\ last' = [call |-> "panicked", freq |-> freq, x |-> scan.x]
    /\ UNCHANGED <<total_freq, symbols, frequencies, since, renorms>>
    /\ UNCHANGED NotModel

ModelNext == ModelDecode \/ ModelDecodeFails \/ ModelDecodePanics

(***************************************************************************)
(*                        BGZF VIRTUAL POSITIONS                           *)
(***************************************************************************)

\* A u64 is four 16-bit limbs, the most significant first.
LimbBase == 2^16

U64(l1, l2, l3, l4) == <<l1, l2, l3, l4>>

\* a & b on 16-bit limbs, bit by bit.
RECURSIVE BitAnd16(_, _)
BitAnd16(a, b) ==
    IF a = 0 \/ b = 0 THEN 0
    ELSE (a % 2) * (b % 2) + 2 * BitAnd16(a \div 2, b \div 2)

\* v & m
AndU64(v, m) == [i \in 1..4 |-> BitAnd16(v[i], m[i])]

\* v >> 16
Shr16(v) == U64(0, v[1], v[2], v[3])

\* 0xffff_ffff_ffff
Mask48 == U64(0, LimbBase - 1, LimbBase - 1, LimbBase - 1)

\* 0xffff_ffff: a mask that is one limb short.
Mask32 == U64(0, 0, LimbBase - 1, LimbBase - 1)

\* 0xffff
Mask16 == U64(0, 0, 0, LimbBase - 1)

\* A compressed offset cut to 32 bits.
compressed_offset_32(offset) == AndU64(Shr16(offset), Mask32)

\* fn compressed_offset(offset: u64) -> u64
compressed_offset(offset) == AndU64(Shr16(offset), Mask48)

\* fn uncompressed_offset(offset: u64) -> u64
uncompressed_offset(offset) == AndU64(offset, Mask16)

\* The test vectors of tests::test_compressed_offset and
\* tests::test_uncompressed_offset: 88384945211, 188049630896, 26155658182977.
TestVps == { U64(0, 20, 37927, 15419), U64(0, 43, 51425, 42672), U64(0, 6089, 51959, 321) }

LimbSamples == {0, 1, LimbBase - 1}

SampleVps == [1..4 -> LimbSamples] \cup TestVps

NoParts == [done |-> FALSE]

OffsetsInit ==
    /\ vp_a \in SampleVps
    /\ vp_b \in SampleVps
    /\ parts = NoParts

\* Both offsets of both virtual positions are computed.
OffsetsDecompose ==
    /\ ~parts.done
    /\ parts' = [done |-> TRUE,
                 c_a |-> compressed_offset(vp_a), u_a |-> uncompressed_offset(vp_a),
                 c_b |-> compressed_offset(vp_b), u_b |-> uncompressed_offset(vp_b)]
    /\ UNCHANGED <<vp_a, vp_b>>
    /\ UNCHANGED NotOffsets

OffsetsNext == OffsetsDecompose

(***************************************************************************)
(*                          THE BGZF READER                                *)
(***************************************************************************)

\* The most blocks a stream is made of.
MaxBlocks == 2

\* The most read_block and seek calls made on one reader.
MaxCalls == 3

\* The most seek calls among them.
MaxSeeks == 1

BGZF_HEADER_SIZE == 18

TRAILER_SIZE == 8

\* The gzip header of a BGZF block with the given BSIZE field (bytes 16..18, little endian).
HeaderBytes(bsize) ==
    <<31, 139, 8, 4, 0, 0, 0, 0, 0, 255, 6, 0, 66, 67, 2, 0, bsize % 256, bsize \div 256>>

\* A block on disk: header, deflate data, trailer (CRC32, ISIZE); data is what the deflate data inflates to.
BlockNoodles ==
    [ name |-> "noodles", bsize |-> 34,
      cdata |-> <<203, 203, 207, 79, 201, 73, 45, 6, 0>>,
      trailer |-> <<161, 88, 42, 128, 7, 0, 0, 0>>,
      data |-> <<110, 111, 111, 100, 108, 101, 115>> ]

BlockBgzf ==
    [ name |-> "bgzf", bsize |-> 31,
      cdata |-> <<75, 74, 175, 74, 3, 0>>,
      trailer |-> <<32, 104, 242, 140, 4, 0, 0, 0>>,
      data |-> <<98, 103, 122, 102>> ]

\* The 28-byte end-of-file marker.
BlockEof ==
    [ name |-> "eof", bsize |-> 27,
      cdata |-> <<3, 0>>,
      trailer |-> <<0, 0, 0, 0, 0, 0, 0, 0>>,
      data |-> <<>> ]

\* A block framed as BGZF whose deflate data starts with the reserved block type.
BlockCorrupt ==
    [ name |-> "corrupt", bsize |-> 28,
      cdata |-> <<7, 0, 0>>,
      trailer |-> <<0, 0, 0, 0, 0, 0, 0, 0>>,
      data |-> <<>> ]

\* A header whose BSIZE + 1 is less than header plus trailer.
BlockUndersized ==
    [ name |-> "undersized", bsize |-> 10,
      cdata |-> <<>>,
      trailer |-> <<0, 0, 0, 0, 0, 0, 0, 0>>,
      data |-> <<>> ]

WellFormedBlocks == {BlockNoodles, BlockBgzf, BlockEof}

BlockCatalog == WellFormedBlocks \cup {BlockCorrupt, BlockUndersized}

BlockBytes(b) == HeaderBytes(b.bsize) \o b.cdata \o b.trailer

RECURSIVE Flatten(_)
Flatten(bs) == IF bs = <<>> THEN <<>> ELSE BlockBytes(Head(bs)) \o Flatten(Tail(bs))

\* How many bytes of a stream's last block may be missing: none; the last
\* byte of the trailer; the trailer; the trailer and a byte of the payload;
\* all but the header; all but the first byte.
Cuts(b) ==
    LET len == Len(BlockBytes(b))
    IN  { c \in {0, 1, TRAILER_SIZE, TRAILER_SIZE + 1, len - BGZF_HEADER_SIZE, len - 1} : c < len }

\* A stream: up to MaxBlocks blocks of the catalog, the last one possibly cut short.
Layouts ==
    { [blocks |-> <<>>, cut |-> 0] }
    \cup UNION { { [blocks |-> bs, cut |-> c] : c \in Cuts(bs[Len(bs)]) } :
                 bs \in SeqsUpTo(BlockCatalog, MaxBlocks) \ { <<>> } }

StreamBytes(l) ==
    LET all == Flatten(l.blocks)
    IN  SubSeq(all, 1, Len(all) - l.cut)

\* The offset at which block k of a layout starts (k = Len + 1: where the uncut stream ends).
BlockStart(l, k) == Len(Flatten(SubSeq(l.blocks, 1, k - 1)))

Panic == [tag |-> "Panic"]

Max(a, b) == IF a >= b THEN a ELSE b

\* Read::read_exact(buf) with buf of n bytes on the underlying stream. With
\* fewer than n bytes left it fails with UnexpectedEof, having consumed what
\* was there; the stream's own I/O error (fails) is of kind Other.
ReadExact(in, n, fails) ==
    IF fails
    THEN [ok |-> FALSE, kind |-> "Other", bytes |-> <<>>, inner |-> in]
    ELSE IF in.pos + n <= Len(in.bytes)
    THEN [ok |-> TRUE, kind |-> "None", bytes |-> SubSeq(in.bytes, in.pos + 1, in.pos + n),
          inner |-> [in EXCEPT !.pos = @ + n]]
    ELSE [ok |-> FALSE, kind |-> "UnexpectedEof", bytes |-> <<>>,
          inner |-> [in EXCEPT !.pos = Max(@, Len(in.bytes))]]

\* LittleEndian::read_u16 of the two bytes at i, i + 1 (1-based).
ReadU16LE(bytes, i) == bytes[i] + 256 * bytes[i + 1]

\* block_size - BGZF_HEADER_SIZE - gz::TRAILER_SIZE + 1 in usize, left to
\* right. From 26 up nothing underflows. At 25, 7 - 8 underflows: a build
\* with overflow checks panics, one without wraps to usize::MAX and the + 1
\* wraps to 0. Below 25 a checked build panics and an unchecked one gets a
\* length above isize::MAX, on which Vec::resize panics.
CdataLenOutcomes(block_size) ==
    IF block_size >= BGZF_HEADER_SIZE + TRAILER_SIZE
    THEN { Ok(block_size - BGZF_HEADER_SIZE - TRAILER_SIZE + 1) }
    ELSE IF block_size = BGZF_HEADER_SIZE + TRAILER_SIZE - 1
    THEN { Panic, Ok(0) }
    ELSE { Panic }

\* DeflateDecoder over cdata, read_to_end: the data of a block of the
\* catalog inflates to its payload; the reserved block type is an error;
\* of other bytes nothing is known, so either may happen.
InflateOutcomes(bytes) ==
    IF \E b \in WellFormedBlocks : b.cdata = bytes
    THEN { Ok(b.data) : b \in { w \in WellFormedBlocks : w.cdata = bytes } }
    ELSE IF bytes = BlockCorrupt.cdata
    THEN { Err("InvalidInput") }
    ELSE { Err("InvalidInput"), Ok(<<>>) }

\* A sink buffer that is not cleared before the block is inflated into it.
NotCleared(block_buf) == block_buf

\* block_buf.clear()
Clear(block_buf) == <<>>

\* Ok(block_size): what read_block returns for a block it decoded.
ReturnedBlockSize(block_size) == block_size

\* read_block that reports an error of the header read.
HeaderFailureReported(header) == Err(header.kind)

\* if self.inner.read_exact(&mut header).is_err() { return Ok(0); }
HeaderFailure(header) == Ok(0)

\* Where the stream raised an I/O error, for the history: at this read, or nowhere.
Raised(read, place) == IF read.kind = "Other" THEN place ELSE "none"

\* The stream's own offset in place of the reader's compressed position.
SinkCOffsetFromStream(s) == s.inner.pos

\* block.set_c_offset(self.position), before self.position advances.
SinkCOffset(s) == s.position

\* read_block after the header, for one outcome of the length computation:
\* the payload, the trailer, the inflation, the sink block, the position.
ReadBlockBody(s, block_size, cdata_len, fault) ==
    IF cdata_len.tag = "Panic" THEN { [s |-> s, result |-> Panic, raised |-> "none"] }
    ELSE
    LET payload == ReadExact(s.inner, cdata_len.val, fault = "cdata")
        s1 == [s EXCEPT !.inner = payload.inner, !.cdata = payload.bytes]
        trailer == ReadExact(s1.inner, TRAILER_SIZE, fault = "trailer")
        s2 == [s1 EXCEPT !.inner = trailer.inner]
    IN  IF ~payload.ok THEN { [s |-> s1, result |-> Err(payload.kind), raised |-> Raised(payload, "cdata")] }
        ELSE IF ~trailer.ok THEN { [s |-> s2, result |-> Err(trailer.kind), raised |-> Raised(trailer, "trailer")] }
        ELSE { IF d.tag = "Err"
               THEN [s |-> [s2 EXCEPT !.block.data = Clear(@)], result |-> d, raised |-> "none"]
               ELSE [s |-> [s2 EXCEPT !.block = [data |-> Clear(@.data) \o d.val, c_offset |-> SinkCOffset(s), position |-> 0],
                                      !.position = @ + BGZF_HEADER_SIZE + cdata_len.val + TRAILER_SIZE],
                     result |-> Ok(ReturnedBlockSize(block_size)), raised |-> "none"]
               : d \in InflateOutcomes(s1.cdata) }

\* Reader::read_block(&mut self, block): the outcomes, each the state after and the result.
ReadBlock(s, fault) ==
    LET header == ReadExact(s.inner, BGZF_HEADER_SIZE, fault = "header")
        s0 == [s EXCEPT !.inner = header.inner]
    IN  IF ~header.ok THEN { [s |-> s0, result |-> HeaderFailure(header), raised |-> Raised(header, "header")] }
        ELSE LET block_size == ReadU16LE(header.bytes, 17)
             IN  UNION { ReadBlockBody(s0, block_size, cdata_len, fault) :
                         cdata_len \in CdataLenOutcomes(block_size) }

\* The value of a u64 below 2^32.
U64Value(v) == v[3] * LimbBase + v[4]

\* Block::seek(SeekFrom::Start(u_offset)): the block's cursor is set to u_offset.
BlockSeek(b, u_offset) == [b EXCEPT !.position = u_offset]

\* self.read_block(block)?; block.seek(SeekFrom::Start(u_offset))?; Ok(pos)
SeekAfterReadBlock(o, pos, u_offset) ==
    IF o.result.tag = "Ok"
    THEN [s |-> [o.s EXCEPT !.block = BlockSeek(@, u_offset)], result |-> Ok(pos)]
    ELSE [s |-> o.s, result |-> o.result]

\* Reader::seek(&mut self, pos, block): the outcomes, each with the result of its read_block.
Seek(s, pos, fault) ==
    LET c_offset == U64Value(compressed_offset(pos))
        u_offset == U64Value(uncompressed_offset(pos))
        s0 == [s EXCEPT !.inner.pos = c_offset, !.position = c_offset]
    IN  IF fault = "seek"
        THEN { [s |-> s, result |-> Err("Other"), read |-> [tag |-> "None"], raised |-> "seek"] }
        ELSE { [s |-> SeekAfterReadBlock(o, pos, u_offset).s,
                result |-> SeekAfterReadBlock(o, pos, u_offset).result,
                read |-> o.result, raised |-> o.raised] : o \in ReadBlock(s0, fault) }

NoCalls == [calls |-> 0, seeks |-> 0]

Reader == [inner |-> inner, position |-> position, cdata |-> cdata, block |-> block]

\* The positions seek is asked for: the start of the stream; then, three
\* bytes into the block, the start of each block, the end of the uncut
\* stream, the byte after it and the second byte of the stream.
SeekTargets ==
    { U64(0, 0, 0, 0) }
    \cup { U64(0, 0, c, 3) :
             c \in { BlockStart(layout, k) : k \in 1..Len(layout.blocks) + 1 }
                   \cup { 1, Len(Flatten(layout.blocks)) + 1 } }

\* Reader::new(inner) on a stream just opened, and Block::default().
ReaderInit ==
    /\ layout \in Layouts
    /\ inner = [bytes |-> StreamBytes(layout), pos |-> 0]
    /\ position = 0
    /\ cdata = <<>>
    /\ block = [data |-> <<>>, c_offset |-> 0, position |-> 0]
    /\ ret = [op |-> "new"]
    /\ counts = NoCalls

\* Calls go on until one panics, the underlying stream raises an I/O error
\* or MaxCalls are made.
Callable ==
    /\ ret.op # "new" => ret.result.tag # "Panic" /\ ret.fault = "none"
    /\ counts.calls < MaxCalls

\* The I/O errors the underlying stream may raise in a call: none, or one at
\* one of the call's reads or seeks.
Faults(places) == {"none"} \cup places

Counted(op) ==
    counts' = [calls |-> counts.calls + 1,
               seeks |-> counts.seeks + (IF op = "seek" THEN 1 ELSE 0)]

Becomes(o) ==
    /\ inner' = o.s.inner
    /\ position' = o.s.position
    /\ cdata' = o.s.cdata
    /\ block' = o.s.block

\* A call of read_block(&mut block).
ReaderReadBlock ==
    /\ Callable
    /\ \E fault \in Faults({"header", "cdata", "trailer"}) :
       \E o \in ReadBlock(Reader, fault) :
         /\ Becomes(o)
         /\ ret' = [op |-> "read_block", fault |-> o.raised, at |-> inner.pos, pos |-> U64(0, 0, 0, 0),
                    read |-> o.result, result |-> o.result,
                    pre_position |-> position, pre_block |-> block]
         /\ Counted("read_block")
    /\ UNCHANGED layout
    /\ UNCHANGED NotReader

\* A call of seek(pos, &mut block).
ReaderSeek ==
    /\ Callable
    /\ counts.seeks < MaxSeeks
    /\ \E pos \in SeekTargets :
       \E fault \in Faults({"seek", "header", "cdata", "trailer"}) :
       \E o \in Seek(Reader, pos, fault) :
         /\ Becomes(o)
         /\ ret' = [op |-> "seek", fault |-> o.raised, at |-> U64Value(compressed_offset(pos)), pos |-> pos,
                    read |-> o.read, result |-> o.result,
                    pre_position |-> position, pre_block |-> block]
         /\ Counted("seek")
    /\ UNCHANGED layout
    /\ UNCHANGED NotReader

ReaderNext == ReaderReadBlock \/ ReaderSeek

(***************************************************************************)
(*                       THE CRAM SLICE BUILDER                            *)
(***************************************************************************)

\* The add_record calls explored on a builder that starts empty.
MaxAdds == 3

\* The add_record calls explored on a builder filled to one short of its capacity.
TailAdds == 2

\* The external data writers of write_records (one per data series and tag encoding).
MaxSeries == 2

\* const MAX_RECORD_COUNT: usize = 10240;
MAX_RECORD_COUNT == 10240

\* const CORE_DATA_BLOCK_CONTENT_ID: i32 = 0;
CORE_DATA_BLOCK_CONTENT_ID == 0

\* usize::MAX in Position::new(usize::MAX): above every position of the model.
USIZE_MAX == 2147483647

\* Option<T>
None == [tag |-> "None"]
Some(v) == [tag |-> "Some", val |-> v]

\* cram::Record as the builder sees it: reference_sequence_id(),
\* alignment_start(), alignment_end().
CramRecord(id, start, end) ==
    [reference_sequence_id |-> id, alignment_start |-> start, alignment_end |-> end]

\* The three records of the slice-classification scenario; a record of
\* another reference sequence; an unmapped record; a record of reference
\* sequence 5 that has no position.
RecFirst == CramRecord(Some(5), Some(100), Some(150))
RecWidest == CramRecord(Some(5), Some(50), Some(200))
RecInner == CramRecord(Some(5), Some(80), Some(120))
RecOther == CramRecord(Some(7), Some(10), Some(20))
RecUnmapped == CramRecord(None, None, None)
RecUnplaced == CramRecord(Some(5), None, None)

RecordSamples == {RecFirst, RecWidest, RecInner, RecOther, RecUnmapped, RecUnplaced}

\* The records a builder is filled with up to one short of its capacity.
FillRecords == {RecFirst, RecUnmapped}

\* Vec<Record> is kept as its runs of equal consecutive records, each with
\* its length: <<[record |-> r, count |-> 3]>> is the vector <<r, r, r>>.
RECURSIVE VecLen(_)
VecLen(v) == IF v = <<>> THEN 0 ELSE v[1].count + VecLen(Tail(v))

\* Vec::push
VecPush(v, x) ==
    IF v # <<>> /\ v[Len(v)].record = x
    THEN [v EXCEPT ![Len(v)].count = @ + 1]
    ELSE Append(v, [record |-> x, count |-> 1])

\* The vector as a sequence of records (for vectors of a few records).
RECURSIVE VecSeq(_)
VecSeq(v) ==
    IF v = <<>> THEN <<>>
    ELSE [i \in 1..v[1].count |-> v[1].record] \o VecSeq(Tail(v))

\* AddRecordError::ReferenceSequenceIdMismatch(record), AddRecordError::SliceFull(record)
AddRecordError(kind, record) == [tag |-> "Err", kind |-> kind, record |-> record]

\* A builder that pins the id of every record it is offered.
PinsEveryRecord(b, record) == record.reference_sequence_id

\* if self.records.is_empty() { self.slice_reference_sequence_id = record.reference_sequence_id(); }
Pinned(b, record) ==
    IF VecLen(b.records) = 0 THEN record.reference_sequence_id ELSE b.slice_reference_sequence_id

\* A builder without a capacity.
IsFullNever(b) == FALSE

\* self.records.len() >= MAX_RECORD_COUNT
IsFull(b) == VecLen(b.records) >= MAX_RECORD_COUNT

\* An add_record that takes every record a builder with room is offered.
AddRecordUnchecked(b, record) ==
    IF IsFull(b)
    THEN [b |-> b, result |-> AddRecordError("SliceFull", record)]
    ELSE [b |-> [b EXCEPT !.slice_reference_sequence_id = Pinned(b, record),
                          !.records = VecPush(@, record)],
          result |-> Ok(record)]

\* Builder::add_record(&mut self, record): the builder after the call and the result.
AddRecord(b, record) ==
    IF IsFull(b)
    THEN [b |-> b, result |-> AddRecordError("SliceFull", record)]
    ELSE LET pinned == [b EXCEPT !.slice_reference_sequence_id = Pinned(b, record)]
         IN  IF record.reference_sequence_id = pinned.slice_reference_sequence_id
             THEN [b |-> [pinned EXCEPT !.records = VecPush(@, record)], result |-> Ok(record)]
             ELSE [b |-> pinned, result |-> AddRecordError("ReferenceSequenceIdMismatch", record)]

\* container::ReferenceSequenceId::{Some(id), None, Many}
ReferenceSequenceIdSome(id) == [tag |-> "Some", val |-> id]
ReferenceSequenceIdNone == [tag |-> "None"]
ReferenceSequenceIdMany == [tag |-> "Many"]

\* fn find_slice_reference_sequence_id(records): the ids are collected into a
\* set; one id classifies the slice, more make it Many; no record panics.
find_slice_reference_sequence_id(recs) ==
    IF VecLen(recs) = 0 THEN Panic
    ELSE LET reference_sequence_ids == { recs[i].record.reference_sequence_id : i \in 1..Len(recs) }
         IN  IF Cardinality(reference_sequence_ids) = 1
             THEN LET reference_sequence_id == CHOOSE id \in reference_sequence_ids : TRUE
                  IN  IF reference_sequence_id.tag = "Some"
                      THEN ReferenceSequenceIdSome(reference_sequence_id.val)
                      ELSE ReferenceSequenceIdNone
             ELSE ReferenceSequenceIdMany

\* Ord for Option<Position>: None is below every Some.
OptionLe(a, b) ==
    \/ a.tag = "None"
    \/ a.tag = "Some" /\ b.tag = "Some" /\ a.val <= b.val

\* std::cmp::min(a, b), std::cmp::max(a, b)
CmpMin(a, b) == IF OptionLe(a, b) THEN a ELSE b
CmpMax(a, b) == IF OptionLe(a, b) THEN b ELSE a

\* A scan that keeps the end of the last record.
LastEnd(record_end, slice_alignment_end) == record_end

\* slice_alignment_end = cmp::max(record.alignment_end(), slice_alignment_end)
WidenEnd(record_end, slice_alignment_end) == CmpMax(record_end, slice_alignment_end)

\* The loop of find_slice_alignment_positions from run i on. The records of
\* a run are equal, and min and max are idempotent: the run moves the scan
\* as its first record does.
RECURSIVE ScanPositions(_, _, _, _)
ScanPositions(recs, i, slice_alignment_start, slice_alignment_end) ==
    IF i > Len(recs)
    THEN [start |-> slice_alignment_start, end |-> slice_alignment_end]
    ELSE ScanPositions(recs, i + 1,
                       CmpMin(recs[i].record.alignment_start, slice_alignment_start),
                       WidenEnd(recs[i].record.alignment_end, slice_alignment_end))

\* fn find_slice_alignment_positions(records)
find_slice_alignment_positions(recs) ==
    IF VecLen(recs) = 0 THEN Panic
    ELSE ScanPositions(recs, 1, Some(USIZE_MAX), None)

\* What write_records leaves in each external data writer: whether the
\* buffer of content id k is nonempty.
ExternalDataWriters == [1..MaxSeries -> BOOLEAN]

\* A write_records that keeps every buffer, the empty ones too.
KeptBuffersAll(writers) == DOMAIN writers

\* .filter(|(_, buf)| !buf.is_empty())
KeptBuffers(writers) == { k \in DOMAIN writers : writers[k] }

\* The orders in which external_data_writers.into_iter() may hand out the
\* kept buffers: a HashMap iterates in an arbitrary order.
ExternalBlockOrders(writers) ==
    LET kept == KeptBuffers(writers)
    IN  { order \in [1..Cardinality(kept) -> kept] :
            \A i, j \in DOMAIN order : i # j => order[i] # order[j] }

\* The block of one external buffer.
ExternalBlock(block_content_id, nonempty) ==
    [content_type |-> "ExternalData", content_id |-> block_content_id, empty |-> ~nonempty]

\* fn write_records: an encoding error, or the core data block and the external blocks.
WriteRecordsOutcomes ==
    { Err("Other") }
    \cup UNION { { Ok([core_data_block |-> [content_type |-> "CoreData",
                                            content_id |-> CORE_DATA_BLOCK_CONTENT_ID],
                       external_blocks |-> [i \in DOMAIN order |->
                                              ExternalBlock(order[i], writers[order[i]])]]) :
                     order \in ExternalBlockOrders(writers) } :
                 writers \in ExternalDataWriters }

\* [0; 16]
ZeroMd5 == [kind |-> "zero"]

\* The MD5 digest of reference_sequence[start..=end].
Md5Of(id, start, end) == [kind |-> "digest", id |-> id, start |-> start, end |-> end]

\* The reference lookups of build: the sequence is found, or an expect panics.
ReferenceLookups == {"found", "panics"}

\* A build that stores 16 zero bytes whatever the slice is.
ReferenceMd5Zero(id, start, end) == { ZeroMd5 }

\* let reference_md5 = match (slice_reference_sequence_id, slice_alignment_start, slice_alignment_end)
ReferenceMd5Outcomes(id, start, end) ==
    IF id.tag = "Some" /\ start.tag = "Some" /\ end.tag = "Some"
    THEN { IF lookup = "found" THEN Md5Of(id.val, start.val, end.val) ELSE Panic :
             lookup \in ReferenceLookups }
    ELSE { ZeroMd5 }

\* usize::from(alignment_end) - usize::from(alignment_start) + 1: the
\* subtraction of an end below the start underflows, which panics in a
\* build with overflow checks and wraps in one without; the + 1 then wraps
\* the sum back into range.
AlignmentSpanOutcomes(start, end) ==
    IF end >= start THEN { Ok(end - start + 1) }
    ELSE IF end - start + 1 = 0 THEN { Panic, Ok(0) }
    ELSE { Panic, Ok((USIZE_MAX + (end - start + 1)) + 1) }

\* Header::builder() ... builder.build()
SliceHeader(id, n, block_content_ids, md5, start, end, span) ==
    [reference_sequence_id |-> id,
     record_count |-> n,
     block_count |-> Len(block_content_ids),
     block_content_ids |-> block_content_ids,
     reference_md5 |-> md5,
     alignment_start |-> IF start.tag = "Some" /\ end.tag = "Some" THEN start ELSE None,
     alignment_span |-> IF start.tag = "Some" /\ end.tag = "Some" THEN Some(span) ELSE None]

\* Builder::build(self, ...): the outcomes.
Build(b) ==
    LET slice_id == find_slice_reference_sequence_id(b.records)
    IN  IF slice_id = Panic THEN { Panic }
        ELSE
        LET positions == IF slice_id.tag = "Some"
                         THEN find_slice_alignment_positions(b.records)
                         ELSE [start |-> None, end |-> None]
            spans == IF positions.start.tag = "Some" /\ positions.end.tag = "Some"
                     THEN AlignmentSpanOutcomes(positions.start.val, positions.end.val)
                     ELSE { Ok(0) }
        IN  UNION { IF written.tag = "Err" THEN { written }
                    ELSE UNION { IF md5 = Panic THEN { Panic }
                                 ELSE { IF span = Panic THEN Panic
                                        ELSE Ok([header |-> SliceHeader(
                                                     slice_id,
                                                     VecLen(b.records),
                                                     <<written.val.core_data_block.content_id>>
                                                       \o [i \in DOMAIN written.val.external_blocks |->
                                                             written.val.external_blocks[i].content_id],
                                                     md5, positions.start, positions.end, span.val),
                                                 core_data_block |-> written.val.core_data_block,
                                                 external_blocks |-> written.val.external_blocks]) :
                                        span \in spans } :
                                 md5 \in ReferenceMd5Outcomes(slice_id,
                                                              positions.start, positions.end) } :
                    written \in WriteRecordsOutcomes }

Builder == [records |-> records, slice_reference_sequence_id |-> slice_reference_sequence_id]

NoFill == [on |-> FALSE]

NotAdded == [op |-> "default"]

NotBuilt == [tag |-> "None"]

\* Builder::default(), and how the builder will be driven: freely from
\* empty, or filled with copies of one record up to one short of its
\* capacity and freely from there.
BuilderInit ==
    /\ records = <<>>
    /\ slice_reference_sequence_id = None
    /\ fill \in { NoFill } \cup { [on |-> TRUE, record |-> r] : r \in FillRecords }
    /\ budget = IF fill.on THEN TailAdds ELSE MaxAdds
    /\ add_ret = NotAdded
    /\ slice = NotBuilt

\* The builder is being filled.
Filling == fill.on /\ VecLen(records) < MAX_RECORD_COUNT - 1

\* The records the next add_record may be given.
Offered == IF Filling THEN { fill.record } ELSE RecordSamples

\* One add_record call.
BuilderAddRecord ==
    /\ slice = NotBuilt
    /\ Filling \/ budget > 0
    /\ \E record \in Offered :
         LET o == AddRecord(Builder, record)
         IN  /\ records' = o.b.records
             /\ slice_reference_sequence_id' = o.b.slice_reference_sequence_id
             /\ add_ret' = [op |-> "add_record", record |-> record, result |-> o.result,
                            held |-> VecLen(records), pinned |-> slice_reference_sequence_id,
                            kept |-> (o.b = Builder)]
    /\ budget' = IF Filling THEN budget ELSE budget - 1
    /\ UNCHANGED <<fill, slice>>
    /\ UNCHANGED NotBuilder

\* build consumes the builder.
BuilderBuild ==
    /\ slice = NotBuilt
    /\ ~Filling
    /\ \E o \in Build(Builder) : slice' = o
    /\ UNCHANGED <<records, slice_reference_sequence_id, fill, budget, add_ret>>
    /\ UNCHANGED NotBuilder

BuilderNext == BuilderAddRecord \/ BuilderBuild

(***************************************************************************)
(*                      THE VCF CHROMOSOME PARSER                          *)
(***************************************************************************)

\* The longest string made of the sample characters.
MaxLen == 3

\* A string is the sequence of its characters; a character is its code point.
Str(codes) == codes

\* 's', 'q', '0' and the characters the parser tells apart from them:
\* ' ' (below '!'), '!' and '~' (the ends of the range), DEL and e-acute
\* (above '~'), '.', '<', '>', '*', '=', and '[' and ',' of the excluded ones.
CharS == 115
CharQ == 113
Char0 == 48
CharSpace == 32
CharBang == 33
CharTilde == 126
CharDel == 127
CharEAcute == 233
CharDot == 46
CharLt == 60
CharGt == 62
CharStar == 42
CharEq == 61
CharLBracket == 91
CharRBracket == 93
CharComma == 44

SampleChars ==
    { CharS, Char0, CharSpace, CharBang, CharTilde, CharDel, CharEAcute,
      CharDot, CharLt, CharGt, CharStar, CharEq, CharLBracket, CharComma }

\* The inputs of tests::test_from_str.
TestStrings ==
    { Str(<<CharS, CharQ, Char0>>),
      Str(<<CharLt, CharS, CharQ, Char0, CharGt>>),
      Str(<<>>),
      Str(<<CharDot>>),
      Str(<<CharS, CharQ, CharSpace, Char0>>),
      Str(<<CharS, CharQ, CharLBracket, Char0, CharRBracket>>),
      Str(<<CharGt, CharS, CharQ, Char0>>),
      Str(<<CharStar, CharS, CharQ, Char0>>),
      Str(<<CharEq, CharS, CharQ, Char0>>) }

Strings == SeqsUpTo(SampleChars, MaxLen) \cup TestStrings

\* super::MISSING_FIELD
MISSING_FIELD == Str(<<CharDot>>)

\* Chromosome::Name(name), Chromosome::Symbol(symbol)
ChromosomeName(name) == [tag |-> "Name", val |-> name]
ChromosomeSymbol(symbol) == [tag |-> "Symbol", val |-> symbol]

\* ParseError::{Empty, Missing, Invalid}
ParseErrorEmpty == Err("Empty")
ParseErrorMissing == Err("Missing")
ParseErrorInvalid == Err("Invalid")

\* str::strip_prefix(c), str::strip_suffix(c)
StripPrefix(s, c) == IF s # <<>> /\ s[1] = c THEN Some(Tail(s)) ELSE None
StripSuffix(s, c) == IF s # <<>> /\ s[Len(s)] = c THEN Some(SubSeq(s, 1, Len(s) - 1)) ELSE None

\* The characters matched out of a name: \ , " ` ' ( ) [ ] { } < >
ExcludedChars == { 92, 44, 34, 96, 39, 40, 41, 91, 93, 123, 125, 60, 62 }

\* fn is_valid_name_char(c: char) -> bool
is_valid_name_char(c) == (CharBang <= c /\ c <= CharTilde) /\ c \notin ExcludedChars

\* Iterator::all(is_valid_name_char) on the characters left.
RECURSIVE CharsAll(_)
CharsAll(chars) ==
    IF chars = <<>> THEN TRUE
    ELSE is_valid_name_char(Head(chars)) /\ CharsAll(Tail(chars))

\* A name check that lets any valid name character come first.
is_valid_name_any_first(s) == CharsAll(s)

\* pub(crate) fn is_valid_name(s: &str) -> bool
is_valid_name(s) ==
    IF s # <<>> /\ (s[1] = CharStar \/ s[1] = CharEq \/ ~is_valid_name_char(s[1]))
    THEN FALSE
    ELSE CharsAll(IF s = <<>> THEN s ELSE Tail(s))

\* impl FromStr for Chromosome: fn from_str(s: &str) -> Result<Self, ParseError>
from_str(s) ==
    IF s = <<>> THEN ParseErrorEmpty
    ELSE IF s = MISSING_FIELD THEN ParseErrorMissing
    ELSE LET t == StripPrefix(s, CharLt)
             u == IF t.tag = "Some" THEN StripSuffix(t.val, CharGt) ELSE None
         IN  IF u.tag = "Some" THEN Ok(ChromosomeSymbol(u.val))
             ELSE IF is_valid_name(s) THEN Ok(ChromosomeName(s))
             ELSE ParseErrorInvalid

NotParsed == [tag |-> "None"]

ChromosomeInit ==
    /\ input \in Strings
    /\ parsed = NotParsed

\* s.parse::<Chromosome>()
ChromosomeFromStr ==
    /\ parsed = NotParsed
    /\ parsed' = from_str(input)
    /\ UNCHANGED input
    /\ UNCHANGED NotChromosome

ChromosomeNext == ChromosomeFromStr

(***************************************************************************)
(*                          THE SPECIFICATIONS                             *)
(***************************************************************************)

\* A part that a specification does not exercise stays at these values.
QueryIdle ==
    /\ file = <<>> /\ chunks0 = <<>> /\ chunks = <<>>
    /\ chromosome_id = 0 /\ interval = [start |-> 1, end |-> 1]
    /\ state = StateDone /\ rvp = 0 /\ stream = "complete"
    /\ yielded = <<>> /\ seeks = <<>> /\ reads = <<>>

ModelIdle ==
    /\ total_freq = 0 /\ symbols = <<>> /\ frequencies = <<>>
    /\ last = NoDecode /\ since = 0 /\ renorms = 0

ReaderIdle ==
    /\ layout = [blocks |-> <<>>, cut |-> 0] /\ inner = [bytes |-> <<>>, pos |-> 0]
    /\ position = 0 /\ cdata = <<>>
    /\ block = [data |-> <<>>, c_offset |-> 0, position |-> 0]
    /\ ret = [op |-> "new"] /\ counts = NoCalls

OffsetsIdle == vp_a = U64(0, 0, 0, 0) /\ vp_b = U64(0, 0, 0, 0) /\ parts = NoParts

BuilderIdle ==
    /\ records = <<>> /\ slice_reference_sequence_id = None
    /\ fill = NoFill /\ budget = 0 /\ add_ret = NotAdded /\ slice = NotBuilt

ChromosomeIdle == input = <<>> /\ parsed = NotParsed

QuerySpecInit == QueryInit /\ ModelIdle /\ ReaderIdle /\ OffsetsIdle /\ BuilderIdle /\ ChromosomeIdle

QuerySpec == QuerySpecInit /\ [][QueryNext]_vars

\* The consumer keeps polling the stream, and a poll runs the loop of
\* query() until it returns: every step that can be taken is taken.
QueryFairSpec == QuerySpecInit /\ [][QueryNext]_vars /\ WF_vars(QueryNext)

ModelSpecInit == ModelInit /\ QueryIdle /\ ReaderIdle /\ OffsetsIdle /\ BuilderIdle /\ ChromosomeIdle

ModelSpec == ModelSpecInit /\ [][ModelNext]_vars

ReaderSpecInit == ReaderInit /\ QueryIdle /\ ModelIdle /\ OffsetsIdle /\ BuilderIdle /\ ChromosomeIdle

ReaderSpec == ReaderSpecInit /\ [][ReaderNext]_vars

OffsetsSpecInit == OffsetsInit /\ QueryIdle /\ ModelIdle /\ ReaderIdle /\ BuilderIdle /\ ChromosomeIdle

OffsetsSpec == OffsetsSpecInit /\ [][OffsetsNext]_vars

BuilderSpecInit ==
    BuilderInit /\ QueryIdle /\ ModelIdle /\ ReaderIdle /\ OffsetsIdle /\ ChromosomeIdle

BuilderSpec == BuilderSpecInit /\ [][BuilderNext]_vars

ChromosomeSpecInit ==
    ChromosomeInit /\ QueryIdle /\ ModelIdle /\ ReaderIdle /\ OffsetsIdle /\ BuilderIdle

ChromosomeSpec == ChromosomeSpecInit /\ [][ChromosomeNext]_vars

(***************************************************************************)
(* Claims about the query stream                                           *)
(***************************************************************************)

\* The positions of a closed 1-based interval [lo, hi].
Covered(lo, hi) == { p \in lo..hi : p >= 1 }

\* The record's interval and the target interval share a position.
SharesPosition(record, iv) == Covered(record.position, record.end) \cap Covered(iv.start, iv.end) # {}

\* C1: every record the stream has yielded has the target chromosome id and
\* its closed interval [position, end] shares a position with the target interval.
C1_YieldedIntersect ==
    \A k \in 1..Len(yielded) :
        yielded[k].kind = "record" =>
            /\ yielded[k].record.chromosome_id = chromosome_id
            /\ SharesPosition(yielded[k].record, interval)

\* A record was yielded while another record that was read was filtered out.
C1_Witness ==
    /\ \E k \in 1..Len(yielded) : yielded[k].kind = "record"
    /\ \E j \in 1..Len(reads) : \A k \in 1..Len(yielded) :
           yielded[k].kind = "record" => yielded[k].index # reads[j]

\* The record at file index i is on the target chromosome and shares a position with the target interval.
OnTarget(i) == file[i].chromosome_id = chromosome_id /\ SharesPosition(file[i], interval)

\* C2: while no error has been yielded, the seeks made so far are the starts
\* of the chunks taken so far, in input order and one per chunk, and the
\* yielded sequence is the subsequence of the records read that are on
\* target, in read order, repeats included.
C2_OrderAndSubsequence ==
    stream # "failed" =>
        /\ Len(seeks) = Len(chunks0) - Len(chunks)
        /\ \A k \in 1..Len(seeks) : seeks[k] = chunks0[k].start
        /\ chunks = SubSeq(chunks0, Len(seeks) + 1, Len(chunks0))
        /\ stream = "complete" => chunks = <<>>
        /\ LET hits == SelectSeq(reads, OnTarget)
           IN  yielded = [k \in 1..Len(hits) |-> ItemRecord(hits[k], file[hits[k]])]

\* A complete run over two chunks with different starts in which one record
\* was yielded twice and another record that was read was filtered out.
C2_Witness ==
    /\ stream = "complete"
    /\ Len(seeks) = 2 /\ seeks[1] # seeks[2]
    /\ \E j, k \in 1..Len(yielded) : j < k /\ yielded[j] = yielded[k]
    /\ \E j \in 1..Len(reads) : ~OnTarget(reads[j])

\* C16: a step of state Read(e) that reads a record leaves the state Seek
\* if the reader's virtual position is then at or past e and Read(e) if not,
\* whether or not the record is yielded; a step of Read(e) that finds no
\* record leaves the state Seek.
C16_StateNotFiltered ==
    [][ (stream = "active" /\ state.tag = "Read") =>
          /\ reads' # reads =>
               state' = IF rvp' >= state.chunk_end THEN StateSeek ELSE StateRead(state.chunk_end)
          /\ (reads' = reads /\ stream' = "active") => state' = StateSeek ]_vars

\* Within one chunk a record was read and yielded, the next was read and
\* filtered out, and the state is still Read.
C16_Witness ==
    /\ state.tag = "Read"
    /\ Len(seeks) = 1 /\ Len(reads) = 2
    /\ Len(yielded) = 1 /\ yielded[1].kind = "record" /\ yielded[1].index = reads[1]
    /\ ~OnTarget(reads[2])

\* Once in Done the stream seeks, reads and yields nothing more, and there
\* is never more than one seek per chunk.
DoneIsFinal ==
    /\ [](Len(seeks) <= Len(chunks0))
    /\ [][state = StateDone =>
            state' = StateDone /\ seeks' = seeks /\ reads' = reads /\ yielded' = yielded]_vars

\* C17 as stated: every run of the query stream eventually is in Done and
\* complete; at most one seek per chunk; nothing happens after Done.
C17_ReachesDone ==
    /\ <>(state = StateDone /\ stream = "complete")
    /\ DoneIsFinal

\* C17, amended: every run of the query stream eventually ends, in Done and
\* complete or with an error yielded; at most one seek per chunk; nothing
\* happens after Done.
C17_EndsDoneOrFailed ==
    /\ <>((state = StateDone /\ stream = "complete") \/ stream = "failed")
    /\ DoneIsFinal

\* A query over two chunks read records from both and completed in Done.
C17_Witness ==
    /\ state = StateDone /\ stream = "complete"
    /\ Len(seeks) = 2
    /\ Len(reads) >= 2

\* A record whose position or end is 0, which is no 1-based position.
ZeroCoordinate(record) == record.position = 0 \/ record.end = 0

\* C18: an error is the last item the stream yields and ends the stream; a
\* stream that failed yielded the error; a record read with a zero
\* coordinate fails the stream with a data error; and after an error there
\* is no further seek, read or item.
C18_ErrorEndsStream ==
    /\ [](/\ \A k \in 1..Len(yielded) :
                yielded[k].kind = "error" => k = Len(yielded) /\ stream = "failed"
          /\ stream = "failed" => yielded # <<>> /\ yielded[Len(yielded)].kind = "error"
          /\ \A j \in 1..Len(reads) :
                ZeroCoordinate(file[reads[j]]) =>
                    /\ j = Len(reads)
                    /\ stream = "failed"
                    /\ yielded[Len(yielded)] = ItemError("InvalidData"))
    /\ [][stream = "failed" =>
            seeks' = seeks /\ reads' = reads /\ yielded' = yielded /\ stream' = stream]_vars

\* A record was yielded, then a record with a zero coordinate failed the
\* stream while a chunk was still to come.
C18_Witness ==
    /\ stream = "failed"
    /\ Len(yielded) = 2
    /\ yielded[1].kind = "record"
    /\ yielded[2] = ItemError("InvalidData")
    /\ chunks # <<>>

\* C19: every record read in state Read(end) begins at a virtual position
\* below end.
C19_ChunkEndExclusive ==
    [][ (stream = "active" /\ state.tag = "Read" /\ reads' # reads) => rvp < state.chunk_end ]_vars

(***************************************************************************)
(* Claims about the adaptive model                                         *)
(***************************************************************************)

\* C3: after every successful decode, total_freq is the sum of the frequencies.
C3_TotalIsSum == last.call = "decoded" => total_freq = SumSeq(frequencies)

\* C4: after every successful decode, total_freq is at most 2^16 - 17.
C4_TotalBounded == last.call = "decoded" => total_freq <= 65519

\* A decode whose +16 pushed total_freq above the limit has returned.
C4_Witness ==
    /\ last.call = "decoded"
    /\ last.before.total_freq <= 65519
    /\ last.before.total_freq + 16 > 65519
    /\ last.renormalized

\* C23: on a model of at least one symbol no decode indexes past the end
\* of the frequency table, and the entry a decode's scan stops at has a
\* frequency above 0.
C23_ScanInBounds ==
    Len(frequencies) >= 1 =>
        /\ last.call # "panicked"
        /\ last.call = "decoded" =>
               /\ last.x < Len(frequencies)
               /\ last.before.frequencies[last.x + 1] > 0
        /\ last.call = "failed" =>
               /\ last.x < Len(frequencies)
               /\ frequencies[last.x + 1] > 0

(***************************************************************************)
(* Claims about the BGZF reader                                            *)
(***************************************************************************)

\* The BSIZE field of the header that starts at offset at of the stream (0-based).
BsizeAt(at) == ReadU16LE(inner.bytes, at + 17)

\* The last call read, with no I/O error of the stream, the complete
\* well-formed block k of the layout.
ReadWholeBlock(k) ==
    /\ ret.op # "new" /\ ret.fault = "none"
    /\ k \in 1..Len(layout.blocks)
    /\ layout.blocks[k] \in WellFormedBlocks
    /\ \A j \in 1..k - 1 : layout.blocks[j] \in BlockCatalog
    /\ ret.at = BlockStart(layout, k)
    /\ k = Len(layout.blocks) => layout.cut = 0

\* C5: a read_block that decoded a well-formed block returns BSIZE + 1, the
\* number of bytes by which the reader's compressed position advanced.
C5_ReturnsBytesConsumed ==
    \A k \in 1..Len(layout.blocks) :
        ReadWholeBlock(k) /\ ret.op = "read_block" =>
            /\ ret.result.tag = "Ok"
            /\ ret.result.val = layout.blocks[k].bsize + 1
            /\ ret.result.val = position - ret.pre_position

\* The stream is N well-formed blocks and every call so far was a read_block
\* on which the stream raised no I/O error.
SequentialReads ==
    /\ layout.cut = 0
    /\ \A k \in 1..Len(layout.blocks) : layout.blocks[k] \in WellFormedBlocks
    /\ counts.calls >= 1 /\ counts.seeks = 0
    /\ ret.fault = "none"

\* C6: on a stream of N well-formed blocks the k-th sequential read_block,
\* k <= N, succeeds and leaves exactly the k-th payload in the sink, and
\* every later one returns 0.
C6_SequentialPayloads ==
    SequentialReads =>
        IF counts.calls <= Len(layout.blocks)
        THEN /\ ret.result.tag = "Ok" /\ ret.result.val # 0
             /\ block.data = layout.blocks[counts.calls].data
        ELSE ret.result = Ok(0)

\* Two blocks, the second the empty end-of-file marker, were read, the second
\* payload replaced a non-empty first one, and the third call returned 0.
C6_Witness ==
    /\ SequentialReads
    /\ layout.blocks = <<BlockNoodles, BlockEof>>
    /\ counts.calls = 3
    /\ ret.result = Ok(0)
    /\ block.data = <<>>

\* The last call's read_block met, with no I/O error of the stream, a header
\* that is all there and declares a payload, in a stream that ends before
\* the end of that block.
EndsInsideBlock ==
    /\ ret.op # "new" /\ ret.fault = "none"
    /\ ret.at + BGZF_HEADER_SIZE <= Len(inner.bytes)
    /\ BsizeAt(ret.at) + 1 > BGZF_HEADER_SIZE + TRAILER_SIZE
    /\ ret.at + BsizeAt(ret.at) + 1 > Len(inner.bytes)

\* C7: a read_block that finds the stream at its end where a header would
\* start returns Ok(0) and leaves the sink block and the reader's position
\* as they were; one that finds the stream ending inside the payload or the
\* trailer returns an UnexpectedEof error.
C7_EofByPlace ==
    /\ ret.op = "read_block" /\ ret.fault = "none" /\ ret.at >= Len(inner.bytes) =>
           /\ ret.result = Ok(0)
           /\ block = ret.pre_block
           /\ position = ret.pre_position
    /\ EndsInsideBlock => ret.read = Err("UnexpectedEof")

\* After a block was read into the sink, a read_block found the stream
\* ending inside the next block's trailer.
C7_Witness ==
    /\ EndsInsideBlock
    /\ ret.op = "read_block"
    /\ ret.at + BsizeAt(ret.at) + 1 - Len(inner.bytes) \in 1..TRAILER_SIZE
    /\ block.data = BlockNoodles.data
    /\ ret.read = Err("UnexpectedEof")

\* C8: an I/O error the stream raises at read_block's header, payload or
\* trailer read is what read_block returns.
C8_IoErrorsSurface ==
    ret.op # "new" /\ ret.fault \in {"header", "cdata", "trailer"} => ret.read = Err("Other")

\* C9: a seek that returns Ok returns the position it was given and leaves
\* in the sink the block at that position's compressed offset, with the
\* cursor at its uncompressed offset.
C9_SeekLandsOnBlock ==
    ret.op = "seek" /\ ret.result.tag = "Ok" =>
        /\ ret.result.val = ret.pos
        /\ block.c_offset = U64Value(compressed_offset(ret.pos))
        /\ block.position = U64Value(uncompressed_offset(ret.pos))

\* The last call was a read_block that read a block: it returned Ok with
\* the block's size, not the 0 of the end of the stream.
ReadABlock ==
    /\ ret.op = "read_block"
    /\ ret.result.tag = "Ok" /\ ret.result.val # 0

\* C20: after a read_block that read a block the sink's c_offset is the
\* reader's compressed position of before the call and the sink's cursor is
\* 0; after k sequential read_blocks from offset 0 over well-formed blocks
\* the sink's c_offset is the sum of the on-disk sizes of the first k - 1
\* blocks and the reader's position the sum of the sizes of the first k.
C20_COffsetIsPriorPosition ==
    /\ ReadABlock =>
           /\ block.c_offset = ret.pre_position
           /\ block.position = 0
    /\ SequentialReads /\ counts.calls <= Len(layout.blocks) =>
           /\ ReadABlock
           /\ block.c_offset = BlockStart(layout, counts.calls)
           /\ position = BlockStart(layout, counts.calls + 1)

\* The second of two sequential read_blocks read the second block: the sink
\* starts where the first block ends and the reader stands behind both.
C20_Witness ==
    /\ SequentialReads /\ ReadABlock
    /\ counts.calls = 2 /\ Len(layout.blocks) = 2
    /\ block.c_offset = BlockStart(layout, 2) /\ block.c_offset > 0
    /\ position = BlockStart(layout, 3) /\ position > block.c_offset
    /\ block.position = 0

\* C25: a read_block that met, with no I/O error of the stream, a whole
\* header whose BSIZE + 1 is below the 26 bytes of header and trailer
\* returned a read error.
C25_ShortBsizeIsError ==
    ( /\ ret.op # "new" /\ ret.fault = "none"
      /\ ret.at + BGZF_HEADER_SIZE <= Len(inner.bytes)
      /\ BsizeAt(ret.at) + 1 < BGZF_HEADER_SIZE + TRAILER_SIZE ) =>
        ret.read.tag = "Err"

(***************************************************************************)
(* Claims about the virtual positions                                      *)
(***************************************************************************)

\* a | b on 16-bit limbs, bit by bit.
RECURSIVE BitOr16(_, _)
BitOr16(a, b) ==
    IF a = 0 THEN b ELSE IF b = 0 THEN a
    ELSE (IF a % 2 = 1 \/ b % 2 = 1 THEN 1 ELSE 0) + 2 * BitOr16(a \div 2, b \div 2)

OrU64(v, w) == [i \in 1..4 |-> BitOr16(v[i], w[i])]

\* v << 16
Shl16(v) == U64(v[2], v[3], v[4], 0)

\* v < w, unsigned.
LessU64(v, w) == \E i \in 1..4 : v[i] < w[i] /\ \A j \in 1..i - 1 : v[j] = w[j]

\* vp div 2^16 and vp mod 2^16 of a base-2^16 numeral.
DivLimb(v) == U64(0, v[1], v[2], v[3])
ModLimb(v) == U64(0, 0, 0, v[4])

\* A u64 that fits a machine integer of the checker.
Small(v) == v[1] = 0 /\ v[2] = 0 /\ v[3] < 2^14

Decomposed(vp, c, u) ==
    /\ u = ModLimb(vp)
    /\ c = DivLimb(vp)
    /\ c[1] = 0
    /\ OrU64(Shl16(c), u) = vp
    /\ Small(vp) => /\ U64Value(c) = U64Value(vp) \div 2^16
                    /\ U64Value(u) = U64Value(vp) % 2^16

\* C10: the two offsets of a virtual position are its quotient and remainder
\* by 2^16, the quotient is below 2^48, shifting the one and or-ing the
\* other gives the position back, and positions compare as their pairs of
\* offsets do.
C10_LosslessDecomposition ==
    parts.done =>
        /\ Decomposed(vp_a, parts.c_a, parts.u_a)
        /\ Decomposed(vp_b, parts.c_b, parts.u_b)
        /\ LessU64(vp_a, vp_b) <=>
               \/ LessU64(parts.c_a, parts.c_b)
               \/ parts.c_a = parts.c_b /\ LessU64(parts.u_a, parts.u_b)

\* The first test vector was decomposed, next to a position with all of the
\* upper sixteen bits set.
C10_Witness ==
    /\ parts.done
    /\ vp_a = U64(0, 20, 37927, 15419)
    /\ parts.c_a = U64(0, 0, 20, 37927) /\ parts.u_a = U64(0, 0, 0, 15419)
    /\ vp_b[1] = LimbBase - 1

\* The table index at which a symbol sits.
IndexOf(syms, s) == CHOOSE i \in DOMAIN syms : syms[i] = s

\* The frequency a symbol must have after the last decode: what it had
\* before, 16 more if it is the decoded symbol, and that halved (rounding
\* up) if the decode renormalized.
CarriedFrequency(s) ==
    LET had == last.before.frequencies[IndexOf(last.before.symbols, s)]
        stepped == IF s = last.sym THEN had + 16 ELSE had
    IN  IF last.renormalized THEN stepped - (stepped \div 2) ELSE stepped

\* C14: after a decode that selected index x > 0 (0-based; entries x and
\* x + 1 here), the frequency at x - 1 is at least the one at x; the symbols
\* are where they were, or the two at x - 1 and x changed places and
\* nothing else moved; and every symbol has its own frequency with it.
C14_AdjacentOrder ==
    (last.call = "decoded" /\ last.x > 0) =>
        /\ frequencies[last.x] >= frequencies[last.x + 1]
        /\ \/ symbols = last.before.symbols
           \/ /\ symbols[last.x] = last.before.symbols[last.x + 1]
              /\ symbols[last.x + 1] = last.before.symbols[last.x]
              /\ \A i \in DOMAIN symbols :
                     i \notin {last.x, last.x + 1} => symbols[i] = last.before.symbols[i]
        /\ \A i \in DOMAIN symbols : frequencies[i] = CarriedFrequency(symbols[i])

\* A decode selected the third entry of the table and moved its symbol up one slot.
C14_Witness ==
    /\ last.call = "decoded"
    /\ last.x = 2
    /\ symbols # last.before.symbols
    /\ symbols[2] = last.sym

(***************************************************************************)
(* Claims about the slice builder                                          *)
(***************************************************************************)

\* The last add_record call was refused with this error, carrying the record it was given.
Refused(kind) == add_ret.result = AddRecordError(kind, add_ret.record)

C12_CapacityFirst ==
    /\ VecLen(records) <= 10240
    /\ (add_ret.op = "add_record" /\ add_ret.held = 10240) =>
         Refused("SliceFull") /\ add_ret.kept /\ VecLen(records) = 10240

\* A full builder was offered a record of another id than the pinned one.
C12_Witness ==
    /\ add_ret.op = "add_record"
    /\ add_ret.held = 10240
    /\ add_ret.record.reference_sequence_id # add_ret.pinned
    /\ Refused("SliceFull")

\* The positions of the held records.
HeldStarts == { records[i].record.alignment_start.val : i \in 1..Len(records) }
HeldEnds == { records[i].record.alignment_end.val : i \in 1..Len(records) }

\* Every held record has an alignment start and an alignment end.
AllPlaced ==
    \A i \in 1..Len(records) :
        records[i].record.alignment_start.tag = "Some" /\ records[i].record.alignment_end.tag = "Some"

ContentIds(blocks) == [i \in DOMAIN blocks |-> blocks[i].content_id]

\* C21: a built slice's block_content_ids is the core block's id 0 followed
\* by the content ids of its external blocks in their order, block_count
\* is 1 + the number of external blocks, and no external block holds an
\* empty buffer.
C21_BlockContentIds ==
    slice.tag = "Ok" =>
        LET header == slice.val.header
            external_blocks == slice.val.external_blocks
        IN  /\ header.block_content_ids = <<0>> \o ContentIds(external_blocks)
            /\ slice.val.core_data_block.content_id = 0
            /\ header.block_count = Len(header.block_content_ids)
            /\ header.block_count = 1 + Len(external_blocks)
            /\ \A i \in DOMAIN external_blocks : ~external_blocks[i].empty

\* A slice was built whose two external blocks came out of the map in the
\* order 2, 1, and another whose buffer 1 was empty and was dropped.
C21_Witness ==
    /\ slice.tag = "Ok"
    /\ \/ /\ ContentIds(slice.val.external_blocks) = <<2, 1>>
          /\ slice.val.header.block_content_ids = <<0, 2, 1>>
          /\ slice.val.header.block_count = 3
       \/ /\ ContentIds(slice.val.external_blocks) = <<2>>
          /\ slice.val.header.block_content_ids = <<0, 2>>
          /\ slice.val.header.block_count = 2

\* The reference sequence ids of the held records.
HeldIds == { records[i].record.reference_sequence_id : i \in 1..Len(records) }

\* The slice is of one reference sequence, every held record has an
\* alignment start and one at least has an alignment end: the slice has a
\* classification Some(id), an alignment start and an alignment end.
SpanDefined ==
    /\ \E id \in HeldIds : HeldIds = {id} /\ id.tag = "Some"
    /\ \A i \in 1..Len(records) : records[i].record.alignment_start.tag = "Some"
    /\ \E i \in 1..Len(records) : records[i].record.alignment_end.tag = "Some"

\* C22: a built slice's reference MD5 is the digest of the reference
\* subsequence from the slice's alignment start to its alignment end when
\* the classification is Some(id) and both positions are defined, and 16
\* zero bytes in every other case.
C22_ReferenceMd5 ==
    slice.tag = "Ok" =>
        IF SpanDefined
        THEN LET id == CHOOSE i \in HeldIds : TRUE
                 starts == { records[i].record.alignment_start.val : i \in 1..Len(records) }
                 ends == { records[i].record.alignment_end.val :
                             i \in { j \in 1..Len(records) : records[j].record.alignment_end.tag = "Some" } }
                 start == CHOOSE p \in starts : \A q \in starts : p <= q
                 end == CHOOSE p \in ends : \A q \in ends : q <= p
             IN  slice.val.header.reference_md5 = Md5Of(id.val, start, end)
        ELSE slice.val.header.reference_md5 = ZeroMd5

\* A slice of reference sequence 5 was built from two placed records and
\* carries the digest of positions 50 to 200 of that sequence.
C22_Witness ==
    /\ slice.tag = "Ok"
    /\ VecSeq(records) = <<RecFirst, RecWidest>>
    /\ slice.val.header.reference_md5 = Md5Of(5, 50, 200)

\* C24: the records a builder holds were all added by add_record and share
\* one reference sequence id, so find_slice_reference_sequence_id never
\* returns Many on them and every built slice is classified Some(id) or None.
C24_ManyUnreachable ==
    /\ Cardinality(HeldIds) <= 1
    /\ records # <<>> => find_slice_reference_sequence_id(records) # ReferenceSequenceIdMany
    /\ slice.tag = "Ok" =>
           /\ slice.val.header.reference_sequence_id = find_slice_reference_sequence_id(records)
           /\ slice.val.header.reference_sequence_id.tag \in {"Some", "None"}

\* A builder that holds two records of reference sequence 5 refused a
\* record of another id as its last add_record and was built into a slice
\* classified Some(5).
C24_Witness ==
    /\ slice.tag = "Ok"
    /\ VecLen(records) = 2
    /\ Refused("ReferenceSequenceIdMismatch")
    /\ add_ret.record.reference_sequence_id \in {Some(7), None}
    /\ slice.val.header.reference_sequence_id = ReferenceSequenceIdSome(5)

(***************************************************************************)
(* Claims about the chromosome parser                                      *)
(***************************************************************************)

\* s is written <t>.
Bracketed(s) == Len(s) >= 2 /\ s[1] = 60 /\ s[Len(s)] = 62

\* Every character of s is printable ASCII and none of \ , " ` ' ( ) [ ] { } < >,
\* and s does not start with * or =.
ContigName(s) ==
    /\ \A i \in 1..Len(s) :
           /\ 33 <= s[i] /\ s[i] <= 126
           /\ s[i] \notin {92, 44, 34, 96, 39, 40, 41, 91, 93, 123, 125, 60, 62}
    /\ Len(s) > 0 => s[1] \notin {42, 61}

\* C15: from_str gives Empty for "", Missing for ".", Symbol(t) for <t>,
\* Name(s) for any other valid contig name, and Invalid for everything else.
C15_Classifies ==
    parsed # NotParsed =>
        parsed = IF input = <<>> THEN Err("Empty")
                 ELSE IF input = <<46>> THEN Err("Missing")
                 ELSE IF Bracketed(input)
                      THEN Ok([tag |-> "Symbol", val |-> SubSeq(input, 2, Len(input) - 1)])
                 ELSE IF ContigName(input) THEN Ok([tag |-> "Name", val |-> input])
                 ELSE Err("Invalid")

\* "=sq0" was parsed and refused as invalid.
C15_Witness ==
    /\ input = <<61, 115, 113, 48>>
    /\ parsed = Err("Invalid")

=============================================================================
